---- MODULE Spec2Model ----
(***************************************************************************)
(* Model of package storage (pkg/storage/storage.go): a task repository    *)
(* that issues parameterized SQL statements through a pgx connection pool. *)
(* The state is the content of the database tables the statements touch,   *)
(* the id sequence of table tasks, the number of pool connections that are *)
(* acquired and not released, the outcome of the last call and the number *)
(* of calls made so far.                                                   *)
(***************************************************************************)
EXTENDS Integers, Sequences, FiniteSets, TLC

VARIABLES tasks, tasks_labels, labels, seq, acquired, last, calls

vars == <<tasks, tasks_labels, labels, seq, acquired, last, calls>>

\* ------------------------------------------------------------------ bounds
MaxId == 2        \* largest id the sequence of table tasks hands out
MaxVal == 1       \* integer arguments and columns range over 0..MaxVal
MaxConns == 2     \* size of the connection pool
MaxSeed == 1      \* ids handed out by the sequence before the first call
MaxCalls == 2     \* calls made on the Storage in one behaviour

Vals == 0..MaxVal
Strs == {"t", "c"}
Ids == 0..(MaxId + 1)
LabelNames == {"bug", "doc"}

\* ------------------------------------------------------- schema defaults
DefaultClosed == 0
DefaultAuthorID == 0
DefaultAssignedID == 0

\* ------------------------------------------------------------ type Task
Task(id, opened, closed, author, assigned, title, content) ==
    [ID |-> id, Opened |-> opened, Closed |-> closed, AuthorID |-> author,
     AssignedID |-> assigned, Title |-> title, Content |-> content]

ZeroTask == Task(0, 0, 0, 0, 0, "", "")

\* Task values a caller passes to NewTask and UpdateTask: every id and closed
\* value, an assigned id chosen away from closed, and both orders of two
\* distinct strings as title and content. Opened and AuthorID, which no
\* statement takes as a parameter, repeat closed and the assigned id.
TaskArgs ==
    {Task(id, closed, closed, MaxVal - closed, MaxVal - closed, title, content) :
        id \in Ids, closed \in Vals,
        title \in Strs, content \in Strs} \
    {Task(id, v, v, w, w, s, s) : id \in Ids, v \in Vals, w \in Vals, s \in Strs}

\* ---------------------------------------------------------------- errors
Nil == "nil"
StoreError == "StoreError"      \* connectivity loss, constraint violation
SyntaxError == "SyntaxError"    \* the server rejects the statement text
ErrNoRows == "ErrNoRows"        \* QueryRow(...).Scan on an empty result

\* Points of a call at which the store can fail:
\*   query: Query/QueryRow cannot send the statement (nothing is executed)
\*   exec:  the store rejects or aborts the statement while executing it,
\*          or a row of its result cannot be read
Faults == {"none", "query", "exec"}

\* ------------------------------------------------------ statement texts
\* The parentheses of each statement text, in order of appearance.
TasksSQL == <<"(", ")", "(", ")">>
NewTaskSQL == <<"(", ")", "(", ")">>
TaskByAuthorSQL == <<"(", ")">>
TaskByLabelSQL == <<"(", "(", ")">>
UpdateTaskSQL == <<>>
DeleteTaskSQL == <<>>

RECURSIVE Depth(_, _)
Depth(sql, d) ==
    IF sql = <<>> THEN d
    ELSE IF d < 0 THEN d
    ELSE Depth(Tail(sql), IF Head(sql) = "(" THEN d + 1 ELSE d - 1)

\* The server parses a statement only if its parentheses are balanced.
Parses(sql) == Depth(sql, 0) = 0

\* Error returned by Pool.Query / the deferred error of Pool.QueryRow before
\* any row is read: the statement is sent and prepared.
Query(sql, fault) ==
    IF fault = "query" THEN StoreError
    ELSE IF ~Parses(sql) THEN SyntaxError
    ELSE Nil

\* ---------------------------------------------------------------- ORDER BY
RECURSIVE OrderById(_)
OrderById(S) ==
    IF S = {} THEN <<>>
    ELSE LET r == CHOOSE x \in S : \A y \in S : x.ID <= y.ID
         IN <<r>> \o OrderById(S \ {r})

\* ------------------------------------------------------------ WHERE clauses
\* TasksWhere without the "$2 = 0 OR" alternative.
TasksWhereMut(r, taskID, authorID) ==
    /\ (taskID = 0 \/ r.ID = taskID)
    /\ r.AuthorID = authorID

TasksWhere(r, taskID, authorID) ==
    /\ (taskID = 0 \/ r.ID = taskID)
    /\ (authorID = 0 \/ r.AuthorID = authorID)

\* TaskByAuthorWhere with the 0 sentinel of Tasks.
TaskByAuthorWhereMut(r, authorID) == authorID = 0 \/ r.AuthorID = authorID

TaskByAuthorWhere(r, authorID) == r.AuthorID = authorID

TaskByLabelWhere(r, labelName) ==
    r.ID \in {tl.task_id : tl \in
                {x \in tasks_labels :
                   x.label_id \in {l.id : l \in {y \in labels : y.name = labelName}}}}

\* UpdateTaskWhere bound to the first parameter instead of the fifth.
UpdateTaskWhereMut(r, taskData) == r.ID = taskData.AssignedID

UpdateTaskWhere(r, taskData) == r.ID = taskData.ID

DeleteTaskWhere(r, id) == r.ID = id

\* ------------------------------------------------------------ row changes
\* InsertRow with assigned_id in the column list.
InsertRowMut(id, opened, t) ==
    Task(id, opened, DefaultClosed, DefaultAuthorID, t.AssignedID,
         t.Title, t.Content)

\* INSERT INTO tasks (title, content): every other column is generated or
\* defaulted by the store.
InsertRow(id, opened, t) ==
    Task(id, opened, DefaultClosed, DefaultAuthorID, DefaultAssignedID,
         t.Title, t.Content)

\* UpdateSet with the parameters of content and title exchanged.
UpdateSetSwapMut(r, taskData) ==
    [r EXCEPT !.AssignedID = taskData.AssignedID,
              !.Closed = taskData.Closed,
              !.Content = taskData.Title,
              !.Title = taskData.Content]

\* UpdateSet that also assigns column id.
UpdateSetIdMut(r, taskData) ==
    [r EXCEPT !.ID = taskData.AssignedID,
              !.AssignedID = taskData.AssignedID,
              !.Closed = taskData.Closed,
              !.Content = taskData.Content,
              !.Title = taskData.Title]

\* SET assigned_id = $1, closed = $2, content = $3, title = $4
UpdateSet(r, taskData) ==
    [r EXCEPT !.AssignedID = taskData.AssignedID,
              !.Closed = taskData.Closed,
              !.Content = taskData.Content,
              !.Title = taskData.Title]

\* ------------------------------------------------------------- row reading
\* The rows.Next()/rows.Scan loop of the three list operations followed by
\* rows.Err(): k is the number of rows received before an exec failure.
ReadRows(rows, fault, k) ==
    IF fault = "exec" THEN [tasks |-> SubSeq(rows, 1, k), err |-> StoreError]
    ELSE [tasks |-> rows, err |-> Nil]

\* QueryRow(...).Scan of a statement with a RETURNING clause.
ScanRow(rows, fault) ==
    IF fault = "exec" THEN StoreError
    ELSE IF rows = <<>> THEN ErrNoRows
    ELSE Nil

\* ---------------------------------------------------------- call records
Call(op, fault, err) ==
    [op |-> op, fault |-> fault, err |-> err, task |-> ZeroTask, taskID |-> 0,
     authorID |-> 0, labelName |-> "", id |-> 0, ret |-> <<>>, updated |-> ZeroTask]

\* ------------------------------------------------------------------- Init
\* Rows that other clients of the database left in table tasks.
SeedRow(i) == Task(i, 0, DefaultClosed, i % (MaxVal + 1), DefaultAssignedID, "t", "c")

Init ==
    /\ \E n \in 0..MaxSeed :
         /\ seq = n + 1
         /\ tasks \in SUBSET {SeedRow(i) : i \in 1..n}
    /\ labels = {[id |-> 1, name |-> "bug"]}
    /\ tasks_labels = {[task_id |-> r.ID, label_id |-> 1] : r \in tasks}
    /\ acquired = 0
    /\ last = Call("New", "none", Nil)
    /\ calls = 0

\* ---------------------------------------------------------------- actions
\* Every call acquires a pool connection first and blocks while none is free.
CanAcquire == acquired < MaxConns

Step == calls < MaxCalls /\ calls' = calls + 1

\* The three list operations: Query, then the row loop, then rows.Err().
\* The loop ends with rows.Next() = false, which closes the rows and
\* releases the connection.
List(sql, rows, fault, k) ==
    LET q == Query(sql, fault)
    IN IF q # Nil THEN [tasks |-> <<>>, err |-> q] ELSE ReadRows(rows, fault, k)

\* k rows were received: all of them unless the execution failed.
Received(rows, fault, k) == k <= Len(rows) /\ (fault = "exec" \/ k = Len(rows))

Tasks(taskID, authorID, fault, k) ==
    /\ Step
    /\ CanAcquire
    /\ LET rows == OrderById({r \in tasks : TasksWhere(r, taskID, authorID)})
       IN /\ Received(rows, fault, k)
          /\ last' = [Call("Tasks", fault, List(TasksSQL, rows, fault, k).err) EXCEPT
                        !.taskID = taskID, !.authorID = authorID,
                        !.ret = List(TasksSQL, rows, fault, k).tasks]
    /\ UNCHANGED <<tasks, tasks_labels, labels, seq, acquired>>

TaskByAuthor(authorID, fault, k) ==
    /\ Step
    /\ CanAcquire
    /\ LET rows == OrderById({r \in tasks : TaskByAuthorWhere(r, authorID)})
       IN /\ Received(rows, fault, k)
          /\ last' = [Call("TaskByAuthor", fault, List(TaskByAuthorSQL, rows, fault, k).err) EXCEPT
                        !.authorID = authorID,
                        !.ret = List(TaskByAuthorSQL, rows, fault, k).tasks]
    /\ UNCHANGED <<tasks, tasks_labels, labels, seq, acquired>>

TaskByLabel(labelName, fault, k) ==
    /\ Step
    /\ CanAcquire
    /\ LET rows == OrderById({r \in tasks : TaskByLabelWhere(r, labelName)})
       IN /\ Received(rows, fault, k)
          /\ last' = [Call("TaskByLabel", fault, List(TaskByLabelSQL, rows, fault, k).err) EXCEPT
                        !.labelName = labelName,
                        !.ret = List(TaskByLabelSQL, rows, fault, k).tasks]
    /\ UNCHANGED <<tasks, tasks_labels, labels, seq, acquired>>

\* The store's clock, which fills column opened of an inserted row: it
\* advances with every call.
Now == calls + 1

NewTask(t, fault) ==
    /\ Step
    /\ CanAcquire
    /\ seq <= MaxId
    /\ LET q == Query(NewTaskSQL, fault)
           executed == q = Nil /\ fault # "exec"
           row == InsertRow(seq, Now, t)
           err == IF q # Nil THEN q
                  ELSE ScanRow(IF executed THEN <<row>> ELSE <<>>, fault)
       IN /\ tasks' = IF executed THEN tasks \cup {row} ELSE tasks
          /\ seq' = IF executed THEN seq + 1 ELSE seq
          /\ last' = [Call("NewTask", fault, err) EXCEPT
                        !.task = t, !.id = IF err = Nil THEN row.ID ELSE 0]
    /\ UNCHANGED <<tasks_labels, labels, acquired>>

UpdateTask(taskData, fault) ==
    /\ Step
    /\ CanAcquire
    /\ LET q == Query(UpdateTaskSQL, fault)
           executed == q = Nil /\ fault # "exec"
           matched == {r \in tasks : UpdateTaskWhere(r, taskData)}
           changed == {UpdateSet(r, taskData) : r \in matched}
           returning == IF executed THEN OrderById(changed) ELSE <<>>
           err == IF q # Nil THEN q ELSE ScanRow(returning, fault)
       IN /\ tasks' = IF executed THEN (tasks \ matched) \cup changed ELSE tasks
          /\ last' = [Call("UpdateTask", fault, err) EXCEPT
                        !.task = taskData,
                        !.updated = IF err = Nil THEN Head(returning) ELSE ZeroTask]
    /\ UNCHANGED <<tasks_labels, labels, seq, acquired>>

\* DeleteTask sends the statement with Query and drops the rows it gets
\* back: the result is never read and the rows are never closed, so the
\* connection stays acquired and an execution failure is never seen.
DeleteTask(id, fault) ==
    /\ Step
    /\ CanAcquire
    /\ LET q == Query(DeleteTaskSQL, fault)
           executed == q = Nil /\ fault # "exec"
       IN /\ tasks' = IF executed THEN {r \in tasks : ~DeleteTaskWhere(r, id)} ELSE tasks
          /\ acquired' = IF q = Nil THEN acquired + 1 ELSE acquired
          /\ last' = [Call("DeleteTask", fault, q) EXCEPT !.taskID = id]
    /\ UNCHANGED <<tasks_labels, labels, seq>>

Next ==
    \/ \E taskID \in Ids, authorID \in Vals, fault \in Faults, k \in 0..MaxId :
         Tasks(taskID, authorID, fault, k)
    \/ \E authorID \in Vals, fault \in Faults, k \in 0..MaxId :
         TaskByAuthor(authorID, fault, k)
    \/ \E labelName \in LabelNames, fault \in Faults, k \in 0..MaxId :
         TaskByLabel(labelName, fault, k)
    \/ \E t \in TaskArgs, fault \in Faults : NewTask(t, fault)
    \/ \E taskData \in TaskArgs, fault \in Faults : UpdateTask(taskData, fault)
    \/ \E id \in Ids, fault \in Faults : DeleteTask(id, fault)

Spec == Init /\ [][Next]_vars

\* ------------------------------------------------------------- properties
IdsOf(S) == {r.ID : r \in S}
Range(s) == {s[i] : i \in 1..Len(s)}
AscendingIds(s) == \A i \in 1..(Len(s) - 1) : s[i].ID < s[i + 1].ID
Labelled(labelName) ==
    {r \in tasks : \E tl \in tasks_labels, l \in labels :
        tl.task_id = r.ID /\ tl.label_id = l.id /\ l.name = labelName}

\* C1: TaskByLabel succeeds and returns exactly the tasks joined through
\* tasks_labels to a label of the given name, in ascending id order.
TaskByLabelReturnsLabelled ==
    (last.op = "TaskByLabel" /\ last.fault = "none") =>
        /\ last.err = Nil
        /\ Range(last.ret) = Labelled(last.labelName)
        /\ Len(last.ret) = Cardinality(Labelled(last.labelName))
        /\ AscendingIds(last.ret)

\* C2: when DeleteTask returns no error the store holds no row with the
\* given id.
DeleteRemovesRow ==
    (last.op = "DeleteTask" /\ last.err = Nil) =>
        \A r \in tasks : r.ID # last.taskID

\* C3: no error is swallowed: a call during which the store failed returns a
\* non-nil error.
NoErrorSwallowed == last.fault # "none" => last.err # Nil

\* C4: UpdateTask on an existing id replaces assigned_id, closed, content and
\* title of that row by the values passed in, keeps its id, opened and
\* author_id, leaves every other row alone and returns the row as stored.
UpdateChangesExactly ==
    [][(/\ last'.op = "UpdateTask"
        /\ last'.fault = "none"
        /\ \E r \in tasks : r.ID = last'.task.ID)
       => LET t == last'.task
              old == CHOOSE r \in tasks : r.ID = t.ID
              new == Task(old.ID, old.Opened, t.Closed, old.AuthorID,
                          t.AssignedID, t.Title, t.Content)
          IN /\ last'.err = Nil
             /\ tasks' = (tasks \ {old}) \cup {new}
             /\ last'.updated = new
             /\ last'.updated \in tasks']_vars

UpdateChangesExactlyWitness ==
    /\ last.op = "UpdateTask"
    /\ last.err = Nil
    /\ last.updated \in tasks
    /\ last.updated.AuthorID # last.task.AuthorID
    /\ last.updated.Opened # last.task.Opened
    /\ last.updated.Closed # DefaultClosed
    /\ last.updated.Title = "c"
    /\ Cardinality(tasks) >= 2

\* C5: UpdateTask on an id no row has returns the no-rows error (the store
\* error if the store failed) and the zero Task, and alters no row.
UpdateMissingFails ==
    [][(/\ last'.op = "UpdateTask"
        /\ \A r \in tasks : r.ID # last'.task.ID)
       => /\ last'.err = (IF last'.fault = "none" THEN ErrNoRows ELSE StoreError)
          /\ last'.updated = ZeroTask
          /\ tasks' = tasks]_vars

\* The id was handed out by the sequence and its row is gone.
UpdateMissingFailsWitness ==
    /\ last.op = "UpdateTask"
    /\ last.err = ErrNoRows
    /\ last.task.ID \in 1..(seq - 1)
    /\ tasks # {}
    /\ \A r \in tasks : r.ID # last.task.ID

\* C6: after a NewTask that returned id without error, Tasks(id, 0) returns
\* exactly one task: it has that id, the title and content passed in,
\* closed = 0 and the default assigned_id and author_id.
CreateRoundTrip ==
    (last.op = "NewTask" /\ (last.err = Nil \/ last.fault = "none")) =>
        LET l == List(TasksSQL, OrderById({r \in tasks : TasksWhere(r, last.id, 0)}),
                      "none", 0)
        IN /\ last.err = Nil
           /\ l.err = Nil
           /\ Len(l.tasks) = 1
           /\ l.tasks[1].ID = last.id
           /\ l.tasks[1].Title = last.task.Title
           /\ l.tasks[1].Content = last.task.Content
           /\ l.tasks[1].Closed = 0
           /\ l.tasks[1].AssignedID = DefaultAssignedID
           /\ l.tasks[1].AuthorID = DefaultAuthorID

CreateRoundTripWitness ==
    /\ last.op = "NewTask"
    /\ last.err = Nil
    /\ last.task.AssignedID # DefaultAssignedID
    /\ last.task.AuthorID # DefaultAuthorID
    /\ last.task.ID # last.id
    /\ Cardinality(tasks) >= 2

\* C7: Tasks(taskID, authorID) returns exactly the stored tasks that pass
\* both filters (0 switches a filter off), in strictly ascending id order;
\* Tasks(0, 0) returns every stored task; no match gives an empty result and
\* no error.
TasksReturnsFiltered ==
    (last.op = "Tasks" /\ last.fault = "none") =>
        /\ last.err = Nil
        /\ Range(last.ret) =
             {t \in tasks : /\ (last.taskID = 0 \/ t.ID = last.taskID)
                            /\ (last.authorID = 0 \/ t.AuthorID = last.authorID)}
        /\ AscendingIds(last.ret)
        /\ (last.taskID = 0 /\ last.authorID = 0) => Range(last.ret) = tasks

TasksReturnsFilteredWitness ==
    /\ last.op = "Tasks"
    /\ last.err = Nil
    /\ last.taskID = 0
    /\ last.authorID = 0
    /\ Len(last.ret) >= 2
    /\ \E i, j \in 1..Len(last.ret) : last.ret[i].AuthorID # last.ret[j].AuthorID

\* C8: TaskByAuthor(a) returns exactly the elements of Tasks(0, 0) whose
\* author is a, in the same order, for a = 0 too; for a # 0 it equals
\* Tasks(0, a).
TaskByAuthorExact ==
    (last.op = "TaskByAuthor" /\ last.fault = "none") =>
        LET all == List(TasksSQL, OrderById({r \in tasks : TasksWhere(r, 0, 0)}),
                        "none", 0).tasks
            same == List(TasksSQL,
                         OrderById({r \in tasks : TasksWhere(r, 0, last.authorID)}),
                         "none", 0).tasks
        IN /\ last.err = Nil
           /\ last.ret = SelectSeq(all, LAMBDA t : t.AuthorID = last.authorID)
           /\ last.authorID # 0 => last.ret = same

\* TaskByAuthor(0) returns the tasks of author 0 and not all tasks.
TaskByAuthorExactWitness ==
    /\ last.op = "TaskByAuthor"
    /\ last.err = Nil
    /\ last.authorID = 0
    /\ last.ret # <<>>
    /\ Len(last.ret) < Cardinality(tasks)

\* C9: no two stored tasks share an id, no call changes the id of a stored
\* task, and a successful NewTask returns an id no stored task had.
IdUniqueImmutable ==
    [][/\ \A r, q \in tasks' : r.ID = q.ID => r = q
       /\ IdsOf(tasks') \subseteq
            IdsOf(tasks) \cup (IF last'.op = "NewTask" /\ last'.err = Nil
                               THEN {last'.id} ELSE {})
       /\ last'.op = "UpdateTask" => IdsOf(tasks') = IdsOf(tasks)
       /\ (last'.op = "NewTask" /\ last'.err = Nil) =>
            /\ last'.id \notin IdsOf(tasks)
            /\ last'.id \in IdsOf(tasks')]_vars

IdUniqueImmutableWitness ==
    /\ last.op = "NewTask"
    /\ last.err = Nil
    /\ last.id \in IdsOf(tasks)
    /\ Cardinality(tasks) >= 2
    /\ \E r \in tasks : r.ID # last.id /\ r.Closed # DefaultClosed

\* C10: between calls no pool connection is held.
ConnectionsReleased == acquired = 0
====
